---- MODULE Spec2Model ----
(***************************************************************************)
(* The realtime synchronisation layer of the SCLIP desktop client:         *)
(*   - useWebSocket   (hooks/useWebSocket.ts, lines 1-116):  the           *)
(*     Connection Manager, one hook instance owning transports, a          *)
(*     reconnect timer handle and a `connected` flag;                      *)
(*   - useRealtimeStore (same file, lines 117-634): the Message Store, a   *)
(*     zustand container whose handleMessage is the dispatch reducer.      *)
(*                                                                         *)
(* A message is a TLA+ record whose DOMAIN is the set of fields the        *)
(* JavaScript object carries, so that "field absent" and "field present"   *)
(* differ, as they do for the object spread {...old, ...msg}.              *)
(***************************************************************************)
EXTENDS Integers, Sequences, FiniteSets, TLC

VARIABLES
    store,       \* the zustand state (useRealtimeStore)
    now,         \* the clock read by Date.now() / new Date()
    sessionId,   \* the sessionId prop, which is also sessionIdRef.current
    onMessage,   \* whether the optional onMessage prop is given
    mounted,     \* whether the hook instance is mounted
    connected,   \* the React state `connected`
    wsRef,       \* wsRef.current: 0 for null, else a transport
    reconnectRef,\* reconnectRef.current: 0 for null, else a timer handle
    tstate,      \* readyState of every transport created by the instance
    turl,        \* the session identifier each transport is addressed to
    tclose,      \* how close() was called on each transport, if it was
    timers,      \* pending reconnect timers (window.setTimeout handles)
    outbox,      \* frames handed to the network by WebSocket.send
    hist,        \* what the runs of ws.onmessage did, in order, and the
                 \* errors raised out of direct calls of handleMessage
    sm           \* one StreamingMessage instance (useStreamingMessage)

vars == <<store, now, sessionId, onMessage, mounted, connected, wsRef,
          reconnectRef, tstate, turl, tclose, timers, outbox, hist, sm>>

connVars == <<sessionId, onMessage, mounted, connected, wsRef, reconnectRef,
              tstate, turl, tclose, timers, outbox, hist>>

(***************************************************************************)
(* Bounds of the model.                                                    *)
(***************************************************************************)
MaxTransports == 3   \* transports one hook instance creates
MsgTransports == 1   \* the same, where inbound frames are followed
MaxFrames == 2       \* inbound frames delivered over all transports
MaxSends == 1        \* frames sent
MaxSize == 3         \* entries in the store before the last dispatch
MaxClock == 1        \* clock ticks
MaxThrows == 1       \* calls of handleMessage that raise
MaxArtifacts == 4    \* the same as MaxSize, where artifacts are followed
MaxUpdates == 2      \* renders of a message instance with new props
MaxCalls == 3        \* the same as MaxSize, where tool calls and mutators are followed

(***************************************************************************)
(* JavaScript helpers.                                                     *)
(***************************************************************************)
Has(m, k) == k \in DOMAIN m

\* msg.k || '' for a string field
StrOr(m, k, d) == IF Has(m, k) /\ m[k] # "" THEN m[k] ELSE d

\* truthiness of a string field: present and not the empty string
TruthyStr(m, k) == Has(m, k) /\ m[k] # ""

\* truthiness of a boolean field
TruthyBool(m, k) == Has(m, k) /\ m[k] = TRUE

\* truthiness of an array field's .length > 0
NonEmptySeq(m, k) == Has(m, k) /\ Len(m[k]) > 0

\* { ...old, ...new }: every field of new, and the fields of old that new lacks
Spread_NewOnly(old, new) == new
Spread(old, new) == new @@ old

\* truthiness of a path or URL field, held as its sequence of segments
TruthyPath(m, k) == Has(m, k) /\ m[k] # <<>>

\* an optional field read as is: undefined is modelled by the default d
Opt(m, k, d) == IF Has(m, k) THEN m[k] ELSE d

\* the object literal {}
EmptyObj == [k \in {} |-> ""]

\* the index of the last element of a sequence of path segments, or <<>>
LastSeg(p) == IF Len(p) = 0 THEN "" ELSE p[Len(p)]

(***************************************************************************)
(* The Message Store: useRealtimeStore.                                    *)
(***************************************************************************)
NullError == "null"
ParseError == "Failed to parse WebSocket message"
SocketError == "WebSocket error"
UnknownError == "Unknown error"

InitialStore ==
    [ connectionStatus |-> "disconnected",
      error |-> NullError,
      messages |-> <<>>,
      toolCalls |-> <<>>,
      toolResults |-> <<>>,
      progress |-> [percent |-> 0, status |-> "", step |-> ""],
      scripts |-> <<>>,
      projectFiles |-> <<>>,
      videoPreviews |-> <<>>,
      selectedFile |-> <<>>,
      userContext |-> [style |-> "cinematic", tone |-> "professional",
                       length |-> "medium", preferences |-> EmptyObj] ]

\* messages.findIndex(m => m.message_id === msg.message_id): 0 stands for -1
findIndex(messages, id) ==
    LET hits == {i \in 1..Len(messages) :
                    Has(messages[i], "message_id") /\ messages[i].message_id = id}
    IN IF hits = {} THEN 0 ELSE CHOOSE i \in hits : \A j \in hits : i <= j

\* a replace that moves the merged entry to the end of the log
LogUpdate_MoveToEnd(messages, msg) ==
    IF TruthyStr(msg, "message_id") /\ TruthyBool(msg, "is_partial")
    THEN LET existingIndex == findIndex(messages, msg.message_id)
         IN IF existingIndex # 0
            THEN Append(SubSeq(messages, 1, existingIndex - 1)
                          \o SubSeq(messages, existingIndex + 1, Len(messages)),
                        Spread(messages[existingIndex], msg))
            ELSE Append(messages, msg)
    ELSE Append(messages, msg)

\* lines 271-286: the append-or-replace of the message log
LogUpdate(messages, msg) ==
    IF TruthyStr(msg, "message_id") /\ TruthyBool(msg, "is_partial")
    THEN LET existingIndex == findIndex(messages, msg.message_id)
         IN IF existingIndex # 0
            THEN [messages EXCEPT ![existingIndex] = Spread(messages[existingIndex], msg)]
            ELSE Append(messages, msg)
    ELSE Append(messages, msg)

NotScript(file) == file.type # "script"

\* projectFiles.filter(file => file.type !== 'script')
PurgeScripts(files) == SelectSeq(files, NotScript)

ScriptEntry(content, t) ==
    [id |-> <<"script", t>>, content |-> content, timestamp |-> t, tool |-> "script_writer"]

\* one entry of result.downloaded_files / data.downloaded_files
DownloadedFile(file, t, r) ==
    [ id |-> <<"file", t, r>>,
      name |-> StrOr(file, "name", "B-roll Media"),
      type |-> StrOr(file, "type", "image"),
      path |-> Opt(file, "path", <<>>),
      url |-> Opt(file, "url", <<>>),
      size |-> Opt(file, "size", 0),
      timestamp |-> t,
      thumbnail |-> IF Has(file, "url") /\ file.url # <<>> THEN file.url
                    ELSE Opt(file, "thumbnail", <<>>),
      source |-> StrOr(file, "source", "unknown") ]

DownloadedFiles(files, t, rnd) ==
    [i \in 1..Len(files) |-> DownloadedFile(files[i], t, rnd[i])]

\* filePath.includes('Projects') ? filePath.split('Projects/')[1]?.split('/')[0] || 'default'
\*                               : 'default', on a path held as its segments
ProjectIdOf(filePath) ==
    LET at == {i \in 1..Len(filePath) : filePath[i] = "Projects"}
    IN IF at = {} THEN "default"
       ELSE LET i == CHOOSE k \in at : \A j \in at : k <= j
            IN IF i < Len(filePath) /\ filePath[i + 1] # "" THEN filePath[i + 1]
               ELSE "default"

BrollUrl(filePath) ==
    <<"http://127.0.0.1:8001/api/projects", ProjectIdOf(filePath), "broll", LastSeg(filePath)>>

\* String.prototype.toLowerCase, on the file types of the model
toLowerCase(str) ==
    CASE str = "VIDEO" -> "video"
      [] str = "Image" -> "image"
      [] OTHER -> str

\* one entry of result.file_paths, with result.metadata[index] and source_types[index]
PathFile(result, index, t, r) ==
    LET filePath == result.file_paths[index]
        metadata == IF Has(result, "metadata") /\ index <= Len(result.metadata)
                    THEN result.metadata[index] ELSE EmptyObj
    IN [ id |-> <<"file", t, r>>,
         name |-> StrOr(metadata, "title", "B-roll Media " \o ToString(index)),
         type |-> IF TruthyStr(metadata, "file_type") THEN toLowerCase(metadata.file_type)
                  ELSE "image",
         path |-> filePath,
         url |-> BrollUrl(filePath),
         size |-> Opt(metadata, "file_size", 0),
         timestamp |-> t,
         thumbnail |-> BrollUrl(filePath),
         source |-> IF Has(result, "source_types") /\ index <= Len(result.source_types)
                       /\ result.source_types[index] # ""
                    THEN result.source_types[index] ELSE "unknown" ]

PathFiles(result, t, rnd) ==
    [i \in 1..Len(result.file_paths) |-> PathFile(result, i, t, rnd[i])]

VoiceoverFile(path, t) ==
    [id |-> <<"voiceover", t>>, name |-> "Generated Voiceover", type |-> "voiceover",
     path |-> path, size |-> 0, timestamp |-> t]

VideoFile(path, t) ==
    [id |-> <<"video", t>>, name |-> "Final Video", type |-> "video",
     path |-> path, size |-> 0, timestamp |-> t]

PreviewEntry(path, thumbnail, t) ==
    [id |-> <<"preview", t>>, path |-> path, timestamp |-> t, status |-> "ready",
     thumbnail |-> thumbnail]

\* lines 400-409: the informational message a broll_finder result may carry
BrollInfo(text, t) ==
    [id |-> <<"msg", t>>, role |-> "assistant", content |-> text, timestamp |-> t,
     type |-> "informational"]

\* lines 326-333
ToolResultOf(msg) ==
    [ tool |-> StrOr(msg, "tool", ""),
      step |-> StrOr(msg, "step", ""),
      result |-> Opt(msg, "result", EmptyObj),
      success |-> TruthyBool(msg, "success"),
      error |-> Opt(msg, "error", "") ]

\* lines 313-319
ToolCallOf(msg) ==
    [ tool |-> StrOr(msg, "tool", ""),
      args |-> Opt(msg, "args", EmptyObj),
      step |-> StrOr(msg, "step", ""),
      description |-> StrOr(msg, "description", "") ]

\* lines 339-453: what a successful tool_result adds, by tool
ScriptWriterHit(msg) == msg.tool = "script_writer" /\ TruthyStr(msg.result, "script_text")
BrollHit(msg) == msg.tool = "broll_finder"
VoiceoverHit(msg) == msg.tool = "voiceover_generator" /\ TruthyPath(msg.result, "audio_path")
VideoHit(msg) == msg.tool = "video_processor" /\ TruthyPath(msg.result, "video_path")

\* line 374: file_paths are read when downloaded_files is absent or empty
UsePaths(result) ==
    NonEmptySeq(result, "file_paths") /\ ~NonEmptySeq(result, "downloaded_files")

\* line 339: msg.success && msg.result (and a tool name to compare)
Extracts(msg) == TruthyBool(msg, "success") /\ Has(msg, "result") /\ Has(msg, "tool")

\* case "tool_result", lines 326-461
ToolResultCase(state, messages, msg, t, rnd) ==
    LET extract == Extracts(msg)
        result == msg.result
        scripts1 == IF extract /\ ScriptWriterHit(msg)
                    THEN Append(state.scripts, ScriptEntry(result.script_text, t))
                    ELSE state.scripts
        files1 == IF extract /\ ScriptWriterHit(msg)
                  THEN PurgeScripts(state.projectFiles) ELSE state.projectFiles
        files2 == IF extract /\ BrollHit(msg) /\ NonEmptySeq(result, "downloaded_files")
                  THEN files1 \o DownloadedFiles(result.downloaded_files, t, rnd)
                  ELSE files1
        files3 == IF extract /\ BrollHit(msg) /\ UsePaths(result)
                  THEN files2 \o PathFiles(result, t, rnd) ELSE files2
        messages1 == IF extract /\ BrollHit(msg) /\ TruthyStr(result, "message")
                     THEN Append(messages, BrollInfo(result.message, t)) ELSE messages
        files4 == IF extract /\ VoiceoverHit(msg)
                  THEN Append(files3, VoiceoverFile(result.audio_path, t)) ELSE files3
        files5 == IF extract /\ VideoHit(msg)
                  THEN Append(files4, VideoFile(result.video_path, t)
                                        @@ [thumbnail |-> Opt(result, "thumbnail", <<>>)])
                  ELSE files4
        previews == IF extract /\ VideoHit(msg)
                    THEN Append(state.videoPreviews,
                                PreviewEntry(result.video_path, Opt(result, "thumbnail", <<>>), t))
                    ELSE state.videoPreviews
    IN [state EXCEPT !.toolResults = Append(@, ToolResultOf(msg)),
                     !.messages = messages1,
                     !.projectFiles = files5,
                     !.scripts = scripts1,
                     !.videoPreviews = previews]

\* lines 514, 533, 552, 565: what a gui_update adds, by update_type
GuiData(msg) == Opt(msg, "data", EmptyObj)
GuiScriptHit(msg) ==
    Opt(msg, "update_type", "") = "script_created" /\ TruthyStr(GuiData(msg), "script_content")
GuiMediaHit(msg) ==
    Opt(msg, "update_type", "") = "media_downloaded" /\ Has(GuiData(msg), "downloaded_files")
GuiVoiceoverHit(msg) ==
    Opt(msg, "update_type", "") = "voiceover_created" /\ TruthyPath(GuiData(msg), "voiceover_file")

\* a video_created branch that reads the field the tool result uses
GuiVideoHit_VideoPath(msg) ==
    Opt(msg, "update_type", "") = "video_created" /\ TruthyPath(GuiData(msg), "video_path")

GuiVideoHit(msg) ==
    Opt(msg, "update_type", "") = "video_created" /\ TruthyPath(GuiData(msg), "final_video")

\* case "gui_update", lines 508-601
GuiUpdateCase(state, messages, msg, t, rnd) ==
    LET data == GuiData(msg)
        isScript == GuiScriptHit(msg)
        scripts1 == IF isScript
                    THEN Append(state.scripts, ScriptEntry(data.script_content, t))
                    ELSE state.scripts
        files1 == IF isScript THEN PurgeScripts(state.projectFiles) ELSE state.projectFiles
        files2 == IF GuiMediaHit(msg)
                  THEN files1 \o DownloadedFiles(data.downloaded_files, t, rnd) ELSE files1
        files3 == IF GuiVoiceoverHit(msg)
                  THEN Append(files2, VoiceoverFile(data.voiceover_file, t)) ELSE files2
        isVideo == GuiVideoHit(msg)
        files4 == IF isVideo THEN Append(files3, VideoFile(data.final_video, t)) ELSE files3
        previews == IF isVideo
                    THEN Append(state.videoPreviews,
                                PreviewEntry(data.final_video, Opt(data, "thumbnail", <<>>), t))
                    ELSE state.videoPreviews
    IN [state EXCEPT !.messages = messages,
                     !.scripts = scripts1,
                     !.projectFiles = files4,
                     !.videoPreviews = previews]

\* case "progress", lines 463-472
ProgressCase(state, messages, msg) ==
    [state EXCEPT !.messages = messages,
                  !.progress = [percent |-> Opt(msg, "percent", state.progress.percent),
                                status |-> StrOr(msg, "status", ""),
                                step |-> StrOr(msg, "step", "")]]

\* an error slot that prefers the message field to the detail
ErrorCase_MessageFirst(state, messages, msg) ==
    [state EXCEPT !.messages = messages,
                  !.error = StrOr(msg, "message", StrOr(msg, "detail", UnknownError))]

\* case "error", lines 474-475
ErrorCase(state, messages, msg) ==
    [state EXCEPT !.messages = messages,
                  !.error = StrOr(msg, "detail", StrOr(msg, "message", UnknownError))]

\* preferences replaced wholesale by those of the message
ContextCase_Replaces(state, messages, msg) ==
    [state EXCEPT !.messages = messages,
                  !.userContext.preferences =
                      IF Has(msg, "preferences") THEN msg.preferences ELSE @]

\* cases "adaptive" and "context_update", lines 492-506
ContextCase(state, messages, msg) ==
    [state EXCEPT !.messages = messages,
                  !.userContext.preferences =
                      IF Has(msg, "preferences") THEN Spread(@, msg.preferences) ELSE @]

\* handleMessage, lines 269-607: the reducer passed to set()
\* a tool_call branch that keeps one entry per tool and step
ToolCallCase_Dedup(state, messages, msg) ==
    IF \E i \in 1..Len(state.toolCalls) :
          /\ state.toolCalls[i].tool = ToolCallOf(msg).tool
          /\ state.toolCalls[i].step = ToolCallOf(msg).step
    THEN [state EXCEPT !.messages = messages]
    ELSE [state EXCEPT !.toolCalls = Append(@, ToolCallOf(msg)), !.messages = messages]

\* case "tool_call", lines 312-324
ToolCallCase(state, messages, msg) ==
    [state EXCEPT !.toolCalls = Append(@, ToolCallOf(msg)), !.messages = messages]

handleMessage(state, msg, t, rnd) ==
    LET messages == LogUpdate(state.messages, msg)
        type == Opt(msg, "type", "")
    IN CASE type = "tool_call" -> ToolCallCase(state, messages, msg)
         [] type = "tool_result" -> ToolResultCase(state, messages, msg, t, rnd)
         [] type = "progress" -> ProgressCase(state, messages, msg)
         [] type = "error" -> ErrorCase(state, messages, msg)
         [] type = "connection_established" ->
              [state EXCEPT !.connectionStatus = "connected", !.messages = messages]
         [] type \in {"adaptive", "context_update"} -> ContextCase(state, messages, msg)
         [] type = "gui_update" -> GuiUpdateCase(state, messages, msg, t, rnd)
         [] OTHER -> [state EXCEPT !.messages = messages]

\* the JSON value null
JsNull == [null |-> TRUE]

\* the downloaded_files array whose entries a dispatch of msg reads (lines
\* 356-357 and 533-535)
FilesRead(msg) ==
    IF Opt(msg, "type", "") = "tool_result" /\ Extracts(msg) /\ BrollHit(msg)
       /\ NonEmptySeq(msg.result, "downloaded_files")
    THEN msg.result.downloaded_files
    ELSE IF Opt(msg, "type", "") = "gui_update" /\ GuiMediaHit(msg)
         THEN msg.data.downloaded_files ELSE <<>>

\* The reducer raises a TypeError inside set(): msg.message_id on null (line
\* 274), or file.name on a null entry of downloaded_files (lines 360, 538)
Throws(msg) ==
    \/ msg = JsNull
    \/ \E i \in 1..Len(FilesRead(msg)) : FilesRead(msg)[i] = JsNull

\* lines 609-634: the local mutators
setConnectionStatus(state, status) == [state EXCEPT !.connectionStatus = status]
setError(state, error) == [state EXCEPT !.error = error]
clearMessages_ResetsAll(state) ==
    [state EXCEPT !.messages = <<>>, !.toolCalls = <<>>, !.toolResults = <<>>]
clearMessages(state) == [state EXCEPT !.messages = <<>>]
addScript(state, entry) == [state EXCEPT !.scripts = Append(@, entry)]
addProjectFile(state, file) == [state EXCEPT !.projectFiles = Append(@, file)]
addVideoPreview(state, preview) == [state EXCEPT !.videoPreviews = Append(@, preview)]
selectFile(state, file) == [state EXCEPT !.selectedFile = file]
updateUserContext(state, context) == [state EXCEPT !.userContext = Spread(@, context)]
clearScripts(state) == [state EXCEPT !.scripts = <<>>]
clearScriptFiles(state) ==
    [state EXCEPT !.projectFiles = SelectSeq(@, LAMBDA file : file.type # "script")]

(***************************************************************************)
(* The Connection Manager: useWebSocket.                                   *)
(***************************************************************************)
SessionIds == {"", "s1", "s2"}
Transports == 1..MaxTransports
NormalClosure == 1000
\* close codes a close event may carry: normal, no status received, abnormal
Codes == {NormalClosure, 1005, 1006}
Live == {"connecting", "open"}

\* The refs and the transports they point to, as one value the handlers thread
Hook == [wsRef |-> wsRef, reconnectRef |-> reconnectRef, tstate |-> tstate,
         turl |-> turl, tclose |-> tclose, timers |-> timers]

\* WebSocket.close() called with no code (lines 38, 83, 99): a connecting
\* transport is aborted, an open one starts the closing handshake, and the
\* call does nothing to a transport that is closing or closed
closeWs(h, t) ==
    IF h.tstate[t] \in Live
    THEN [h EXCEPT !.tstate[t] = IF h.tstate[t] = "connecting" THEN "aborting" ELSE "closing",
                   !.tclose[t] = "close()"]
    ELSE h

\* wsRef.current && wsRef.current.readyState === WebSocket.OPEN, line 32
CurrentIsOpen == wsRef # 0 /\ tstate[wsRef] = "open"

Free(h) == {t \in Transports : h.tstate[t] = "none"}
NewTransport(h) == CHOOSE t \in Free(h) : \A u \in Free(h) : t <= u

\* a connect that opens a transport without closing the one it holds
connect_KeepsOld(h, sid, url) ==
    IF sid = "" THEN h
    ELSE IF h.wsRef # 0 /\ h.tstate[h.wsRef] = "open" THEN h
    ELSE LET ws == NewTransport(h)
         IN [h EXCEPT !.tstate[ws] = "connecting", !.turl[ws] = url, !.wsRef = ws]

\* a connect that does not look whether the transport it holds is open; when
\* every transport of the model is in use it stops after closing the one it
\* holds
connect_NoOpenCheck(h, sid, url) ==
    IF sid = "" THEN h
    ELSE LET h1 == IF h.wsRef # 0 THEN closeWs(h, h.wsRef) ELSE h
         IN IF Free(h1) = {} THEN h1
            ELSE LET ws == NewTransport(h1)
                 IN [h1 EXCEPT !.tstate[ws] = "connecting", !.turl[ws] = url,
                               !.wsRef = ws]

\* a connect that gives up once the transport it holds has closed
connect_GivesUp(h, sid, url) ==
    IF sid = "" THEN h
    ELSE IF h.wsRef # 0 /\ h.tstate[h.wsRef] \in {"open", "closed"} THEN h
    ELSE LET h1 == IF h.wsRef # 0 THEN closeWs(h, h.wsRef) ELSE h
             ws == NewTransport(h1)
         IN [h1 EXCEPT !.tstate[ws] = "connecting", !.turl[ws] = url, !.wsRef = ws]

\* connect, lines 28-42; sid is sessionIdRef.current and url the wsUrl the
\* closure was created with
connect(h, sid, url) ==
    IF sid = "" THEN h
    ELSE IF h.wsRef # 0 /\ h.tstate[h.wsRef] = "open" THEN h
    ELSE LET h1 == IF h.wsRef # 0 THEN closeWs(h, h.wsRef) ELSE h
             ws == NewTransport(h1)
         IN [h1 EXCEPT !.tstate[ws] = "connecting", !.turl[ws] = url, !.wsRef = ws]

\* whether connect can run with no more than maxT transports ever created
CanConnect(h, sid, maxT) ==
    \/ sid = ""
    \/ h.wsRef # 0 /\ h.tstate[h.wsRef] = "open"
    \/ Free(h) \cap 1..maxT # {}

\* the effect's cleanup, lines 97-106, and the same steps at lines 82-89
cleanup(h) ==
    LET h1 == IF h.wsRef # 0 THEN [closeWs(h, h.wsRef) EXCEPT !.wsRef = 0] ELSE h
    IN IF h1.reconnectRef # 0
       THEN [h1 EXCEPT !.timers = @ \ {h1.reconnectRef}, !.reconnectRef = 0]
       ELSE h1

SetHook(h) ==
    /\ wsRef' = h.wsRef
    /\ reconnectRef' = h.reconnectRef
    /\ tstate' = h.tstate
    /\ turl' = h.turl
    /\ tclose' = h.tclose
    /\ timers' = h.timers

\* A render with a new sessionId prop: line 20, then the previous effect's
\* cleanup (which exists only when that effect ran connect), then lines 79-96
Render(s, maxT) ==
    /\ mounted
    /\ s # sessionId
    /\ LET h1 == IF sessionId # "" THEN cleanup(Hook) ELSE Hook
       IN IF s = ""
          THEN /\ SetHook(cleanup(h1))
               /\ connected' = FALSE
               /\ store' = setConnectionStatus(store, "disconnected")
          ELSE /\ CanConnect(h1, s, maxT)
               /\ SetHook(connect(h1, s, s))
               /\ UNCHANGED <<connected, store>>
    /\ sessionId' = s
    /\ UNCHANGED <<now, onMessage, mounted, outbox, hist>>
    /\ UNCHANGED sm

SetSessionId(s) == Render(s, MaxTransports)

\* A render with another onMessage prop: line 21
SetOnMessage ==
    /\ mounted
    /\ onMessage' = ~onMessage
    /\ UNCHANGED <<store, now, sessionId, mounted, connected, wsRef, reconnectRef,
                   tstate, turl, tclose, timers, outbox, hist>>
    /\ UNCHANGED sm

\* Unmount: the last effect's cleanup, lines 97-106
Unmount ==
    /\ mounted
    /\ mounted' = FALSE
    /\ SetHook(IF sessionId # "" THEN cleanup(Hook) ELSE Hook)
    /\ UNCHANGED <<store, now, sessionId, onMessage, connected, outbox, hist>>
    /\ UNCHANGED sm

\* ws.onopen, lines 44-48
OnOpen(t) ==
    /\ tstate[t] = "connecting"
    /\ tstate' = [tstate EXCEPT ![t] = "open"]
    /\ connected' = TRUE
    /\ store' = setConnectionStatus(store, "connected")
    /\ UNCHANGED <<now, sessionId, onMessage, mounted, wsRef, reconnectRef, turl,
                   tclose, timers, outbox, hist>>
    /\ UNCHANGED sm

\* The codes the close event of transport t may carry: 1006 when the
\* connection was never established, any code otherwise (the peer chooses it)
CloseCodes(t) == IF tstate[t] \in {"connecting", "aborting"} THEN {1006} ELSE Codes

\* lines 55-59: whether ws.onclose schedules a reconnect
ShouldReconnect(code, sid) == code # NormalClosure /\ sid # ""

\* ws.onclose, lines 50-60
OnClose(t, code) ==
    /\ tstate[t] \in {"connecting", "open", "aborting", "closing"}
    /\ code \in CloseCodes(t)
    /\ tstate' = [tstate EXCEPT ![t] = "closed"]
    /\ connected' = FALSE
    /\ IF ShouldReconnect(code, sessionId)
       THEN /\ store' = setConnectionStatus(store, "reconnecting")
            /\ timers' = timers \cup {t}
            /\ reconnectRef' = t
       ELSE /\ store' = setConnectionStatus(store, "disconnected")
            /\ UNCHANGED <<timers, reconnectRef>>
    /\ UNCHANGED <<now, sessionId, onMessage, mounted, wsRef, turl, tclose, outbox, hist>>
    /\ UNCHANGED sm

\* ws.onerror, lines 62-65
OnError(t) ==
    /\ tstate[t] \in Live
    /\ store' = setError(store, SocketError)
    /\ UNCHANGED connVars
    /\ UNCHANGED now
    /\ UNCHANGED sm

\* The reconnect timer scheduled by transport t's close event fires: it runs
\* the connect closure that created t (line 58)
TimerFire(t) ==
    /\ t \in timers
    /\ CanConnect(Hook, sessionId, MaxTransports)
    /\ SetHook(connect([Hook EXCEPT !.timers = @ \ {t}], sessionId, turl[t]))
    /\ UNCHANGED <<store, now, sessionId, onMessage, mounted, connected, outbox, hist>>
    /\ UNCHANGED sm

(***************************************************************************)
(* Inbound frames.  A frame is raw text; JSON.parse (line 69) either       *)
(* throws or yields a value.  The frames of the model and what they decode *)
(* to:                                                                     *)
(***************************************************************************)
Frames == {"{bad", "null", "hello", "established", "call"}

Decodes(f) == f # "{bad"

Decode(f) ==
    CASE f = "null" -> JsNull
      [] f = "hello" -> [type |-> "ai_message", message_id |-> "m1", is_partial |-> TRUE,
                         content |-> "Hel"]
      [] f = "established" -> [type |-> "connection_established"]
      [] f = "call" -> [type |-> "tool_call", tool |-> "script_writer", step |-> "script"]

\* Math.random() is drawn once for every file a dispatch adds (lines 359,
\* 386, 537); Draws(msg) are the sequences of values the draws may return
Rands == {1, 2}

NumDraws(msg) ==
    LET type == Opt(msg, "type", "")
        result == Opt(msg, "result", EmptyObj)
        data == Opt(msg, "data", EmptyObj)
    IN IF type = "tool_result" /\ TruthyBool(msg, "success") /\ Opt(msg, "tool", "") = "broll_finder"
       THEN IF NonEmptySeq(result, "downloaded_files") THEN Len(result.downloaded_files)
            ELSE IF NonEmptySeq(result, "file_paths") THEN Len(result.file_paths) ELSE 0
       ELSE IF type = "gui_update" /\ Opt(msg, "update_type", "") = "media_downloaded"
               /\ Has(data, "downloaded_files")
            THEN Len(data.downloaded_files) ELSE 0

Draws(msg) == [1..NumDraws(msg) -> Rands]

\* a try block that calls the legacy callback before the store
onmessageTry_CallbackFirst(f, t, rnd) ==
    LET data == Decode(f)
    IN IF Throws(data)
       THEN /\ store' = setError(store, ParseError)
            /\ hist' = hist \o <<<<"recv", t, f>>, <<"dispatch", t, f>>>>
       ELSE /\ store' = handleMessage(store, data, now, rnd)
            /\ hist' = hist \o <<<<"recv", t, f>>>>
                            \o (IF onMessage THEN <<<<"callback", t, f>>>> ELSE <<>>)
                            \o <<<<"dispatch", t, f>>>>

\* the try block of ws.onmessage, lines 68-71, for a frame that decodes
onmessageTry(f, t, rnd) ==
    LET data == Decode(f)
    IN IF Throws(data)
       THEN /\ store' = setError(store, ParseError)
            /\ hist' = hist \o <<<<"recv", t, f>>, <<"dispatch", t, f>>>>
       ELSE /\ store' = handleMessage(store, data, now, rnd)
            /\ hist' = hist \o <<<<"recv", t, f>>, <<"dispatch", t, f>>>>
                            \o (IF onMessage THEN <<<<"callback", t, f>>>> ELSE <<>>)

\* a catch block that enters the failure in the message log as an error message
onmessageCatch_LogsError(f, t) ==
    /\ store' = handleMessage(store, [type |-> "error", detail |-> ParseError], now, <<>>)
    /\ hist' = Append(hist, <<"recv", t, f>>)

\* the catch block of ws.onmessage, lines 72-75, for a frame that does not
onmessageCatch(f, t) ==
    /\ store' = setError(store, ParseError)
    /\ hist' = Append(hist, <<"recv", t, f>>)

Received == SelectSeq(hist, LAMBDA e : e[1] = "recv")

\* ws.onmessage, lines 67-76
OnMessage(t, f) ==
    /\ tstate[t] = "open"
    /\ Len(Received) < MaxFrames
    /\ IF Decodes(f)
       THEN \E rnd \in Draws(Decode(f)) : onmessageTry(f, t, rnd)
       ELSE onmessageCatch(f, t)
    /\ UNCHANGED <<now, sessionId, onMessage, mounted, connected, wsRef, reconnectRef,
                   tstate, turl, tclose, timers, outbox>>
    /\ UNCHANGED sm

Payloads == {"p1"}

\* WebSocket.send on transport t (line 111): a frame leaves when t is open;
\* send raises InvalidStateError on a connecting transport and discards the
\* data on a closing or closed one
wsSend(t, p) ==
    IF tstate[t] = "open" THEN Append(outbox, <<t, p>>) ELSE outbox

\* what sendMessage does with the payload, lines 110-112
sendMessage(p) ==
    IF wsRef # 0 /\ connected THEN wsSend(wsRef, p) ELSE outbox

\* a call of sendMessage by the component, lines 109-113
Send(p) ==
    /\ mounted
    /\ Len(outbox) < MaxSends
    /\ outbox' = sendMessage(p)
    /\ UNCHANGED <<store, now, sessionId, onMessage, mounted, connected, wsRef,
                   reconnectRef, tstate, turl, tclose, timers, hist>>
    /\ UNCHANGED sm

\* The script the Script tab shows: the selector of ScriptTab.tsx, lines 14-33
script(s) ==
    LET scriptResults == SelectSeq(s.toolResults,
                             LAMBDA msg : msg.tool = "script_writer"
                                          /\ TruthyStr(msg.result, "script_text"))
    IN IF scriptResults # <<>>
       THEN scriptResults[Len(scriptResults)].result.script_text
       ELSE IF Len(s.scripts) > 0 THEN s.scripts[Len(s.scripts)].content
       ELSE ""

(***************************************************************************)
(* The Streaming Presentation Adapter: useStreamingMessage, one instance   *)
(* per mounted message.  A text is the sequence of its characters.  The    *)
(* instance i is a record of the props (message, onComplete), the React    *)
(* state (displayedText, isStreaming, showCursor, isComplete), the ref     *)
(* streamIntervalRef, the live intervals (reveals: the closures of the     *)
(* setInterval at line 32; blinks: how many intervals of line 72 are live; *)
(* cursorInterval: whether the last run of the cursor effect created one), *)
(* the dependencies each effect last ran with, and what happened so far    *)
(* (started, ticks, calls, skipped, replaced, updates).                    *)
(***************************************************************************)
NoInstance ==
    [ phase |-> "none", message |-> EmptyObj, onComplete |-> 0,
      displayedText |-> <<>>, isStreaming |-> FALSE, showCursor |-> FALSE,
      isComplete |-> FALSE, streamIntervalRef |-> 0, reveals |-> {},
      cursorInterval |-> FALSE, blinks |-> 0, cursorDeps |-> <<>>, messageDeps |-> <<>>,
      started |-> 0, ticks |-> 0, calls |-> 0, skipped |-> FALSE, replaced |-> FALSE,
      updates |-> 0 ]

\* line 19: message.content || message.message || message.detail || ''
fullText(message) ==
    IF NonEmptySeq(message, "content") THEN message.content
    ELSE IF NonEmptySeq(message, "message") THEN message.message
    ELSE IF NonEmptySeq(message, "detail") THEN message.detail
    ELSE <<>>

\* clearInterval on a reveal interval
clearInterval(i, id) == [i EXCEPT !.reveals = {r \in @ : r.id # id}]

\* lines 45-48, 58-61: clear the interval the ref holds and null the ref
clearRef(i) ==
    IF i.streamIntervalRef # 0
    THEN [clearInterval(i, i.streamIntervalRef) EXCEPT !.streamIntervalRef = 0]
    ELSE i

\* startStreaming, lines 23-55, as created by the render of state i
startStreaming(i) ==
    IF Opt(i.message, "type", "") # "ai_message" \/ fullText(i.message) = <<>> \/ i.isStreaming
    THEN i
    ELSE [i EXCEPT !.isStreaming = TRUE,
                   !.displayedText = <<>>,
                   !.showCursor = TRUE,
                   !.isComplete = FALSE,
                   !.streamIntervalRef = i.started + 1,
                   !.reveals = @ \cup {[id |-> i.started + 1, fullText |-> fullText(i.message),
                                        currentIndex |-> 0, onComplete |-> i.onComplete]},
                   !.started = @ + 1]

\* stopStreaming, lines 57-66
stopStreaming(i) ==
    [clearRef(i) EXCEPT !.isStreaming = FALSE,
                        !.showCursor = FALSE,
                        !.displayedText = fullText(i.message),
                        !.isComplete = TRUE]

\* the cursor effect without the cleanup of line 76
cursorEffect_NoCleanup(i) ==
    IF i.showCursor THEN [i EXCEPT !.blinks = @ + 1, !.cursorInterval = TRUE] ELSE i

\* The cursor effect, lines 69-77: the cleanup of its last run, then its body
cursorEffect(i) ==
    LET i1 == IF i.cursorInterval
              THEN [i EXCEPT !.blinks = @ - 1, !.cursorInterval = FALSE] ELSE i
    IN IF i1.showCursor THEN [i1 EXCEPT !.blinks = @ + 1, !.cursorInterval = TRUE] ELSE i1

\* The message effect, lines 80-113
messageEffect(i) ==
    LET message == i.message
        text == fullText(message)
    IN IF Opt(message, "type", "") = "ai_message" /\ text # <<>>
       THEN IF TruthyBool(message, "is_partial")
            THEN [i EXCEPT !.displayedText = text, !.showCursor = TRUE,
                           !.isStreaming = TRUE, !.isComplete = FALSE]
            ELSE IF TruthyBool(message, "is_complete")
            THEN [i EXCEPT !.displayedText = text, !.isStreaming = FALSE,
                           !.showCursor = FALSE, !.isComplete = TRUE, !.calls = @ + 1]
            ELSE IF ~i.isStreaming /\ ~i.isComplete THEN startStreaming(i)
            ELSE i
       ELSE IF Opt(message, "type", "") # "ai_message"
       THEN [i EXCEPT !.displayedText = text, !.isStreaming = FALSE,
                      !.showCursor = FALSE, !.isComplete = TRUE]
       ELSE i

\* the dependency arrays of the two effects (lines 77 and 113; startStreaming
\* and fullText change with message, isStreaming and onComplete)
CursorDeps(i) == <<i.showCursor>>
MessageDeps(i) == <<i.message, i.isStreaming, i.isComplete, i.onComplete>>

\* a render is committed whose effects have not run yet
Pending(i) ==
    i.phase = "mounted" /\ (i.cursorDeps # CursorDeps(i) \/ i.messageDeps # MessageDeps(i))

\* the effects of the committed render, those whose dependencies changed, in
\* the order of their definition; the state they set is the next render's
useEffects(i) ==
    LET i1 == IF i.cursorDeps # CursorDeps(i) THEN cursorEffect(i) ELSE i
        i2 == IF i.messageDeps # MessageDeps(i) THEN messageEffect(i1) ELSE i1
    IN [i2 EXCEPT !.cursorDeps = CursorDeps(i), !.messageDeps = MessageDeps(i)]

\* the state an unmounted instance keeps: setState does nothing on it
Kept(i, j) ==
    IF i.phase = "mounted" THEN j
    ELSE [j EXCEPT !.displayedText = i.displayedText, !.isStreaming = i.isStreaming,
                   !.showCursor = i.showCursor, !.isComplete = i.isComplete]

\* the callback completing one character before the end of the text
revealTick_CompletesEarly(i, r) ==
    IF r.currentIndex + 1 < Len(r.fullText)
    THEN [i EXCEPT !.displayedText = Append(@, r.fullText[r.currentIndex + 1]),
                   !.reveals = (@ \ {r}) \cup {[r EXCEPT !.currentIndex = @ + 1]},
                   !.ticks = @ + 1]
    ELSE [clearRef(i) EXCEPT !.isStreaming = FALSE, !.showCursor = FALSE,
                             !.isComplete = TRUE, !.calls = @ + 1]

\* one run of the interval's callback, lines 32-54, for the closure r
revealTick(i, r) ==
    IF r.currentIndex < Len(r.fullText)
    THEN [i EXCEPT !.displayedText = Append(@, r.fullText[r.currentIndex + 1]),
                   !.reveals = (@ \ {r}) \cup {[r EXCEPT !.currentIndex = @ + 1]},
                   !.ticks = @ + 1]
    ELSE [clearRef(i) EXCEPT !.isStreaming = FALSE, !.showCursor = FALSE,
                             !.isComplete = TRUE, !.calls = @ + 1]

\* the props are those of the store's messages, with texts as sequences
StreamMsgs ==
    { [type |-> "ai_message", content |-> <<"a", "b">>],
      [type |-> "ai_message", content |-> <<"x">>],
      [type |-> "ai_message", message_id |-> "m1", is_partial |-> TRUE, content |-> <<"a">>],
      [type |-> "ai_message", message_id |-> "m1", is_partial |-> TRUE, content |-> <<"a", "c">>],
      [type |-> "ai_message", content |-> <<"a", "b">>, is_complete |-> TRUE],
      [type |-> "ai_message"],
      [type |-> "error", detail |-> <<"e">>],
      [type |-> "thinking"] }

StreamStep(next) ==
    /\ sm' = next
    /\ UNCHANGED <<store, now>>
    /\ UNCHANGED connVars

\* the first render of the instance (part_009 lines 510-521)
MountMessage(m) ==
    /\ sm.phase = "none"
    /\ StreamStep([NoInstance EXCEPT !.phase = "mounted", !.message = m, !.onComplete = 1])

\* the effects run after a commit, before anything else is processed
RunEffects ==
    /\ Pending(sm)
    /\ StreamStep(useEffects(sm))

\* the parent renders the instance with another message, with a new
\* onComplete function (fresh), or both
ParentRender(m, fresh) ==
    /\ sm.phase = "mounted"
    /\ ~Pending(sm)
    /\ sm.updates < MaxUpdates
    /\ m # sm.message \/ fresh
    /\ StreamStep([sm EXCEPT !.message = m,
                             !.onComplete = IF fresh THEN @ + 1 ELSE @,
                             !.replaced = @ \/ m # sm.message,
                             !.updates = @ + 1])

\* the reveal interval fires
RevealTick(r) ==
    /\ r \in sm.reveals
    /\ ~Pending(sm)
    /\ StreamStep(Kept(sm, revealTick(sm, r)))

\* the cursor interval fires, lines 72-74
BlinkTick ==
    /\ sm.blinks > 0
    /\ ~Pending(sm)
    /\ StreamStep(Kept(sm, [sm EXCEPT !.showCursor = ~@]))

\* a click on the bubble of a streaming ai_message (part_001 line 58)
Skip ==
    /\ sm.phase = "mounted"
    /\ ~Pending(sm)
    /\ sm.isStreaming
    /\ Opt(sm.message, "type", "") = "ai_message"
    /\ StreamStep([stopStreaming(sm) EXCEPT !.skipped = TRUE])

\* the instance unmounts: the cleanups of lines 76 and 117-121
UnmountMessage ==
    /\ sm.phase = "mounted"
    /\ LET i1 == IF sm.cursorInterval
                 THEN [sm EXCEPT !.blinks = @ - 1, !.cursorInterval = FALSE] ELSE sm
           i2 == IF i1.streamIntervalRef # 0
                 THEN clearInterval(i1, i1.streamIntervalRef) ELSE i1
       IN StreamStep([i2 EXCEPT !.phase = "unmounted"])

StreamNext ==
    \/ \E m \in StreamMsgs : MountMessage(m)
    \/ RunEffects
    \/ \E m \in StreamMsgs, fresh \in BOOLEAN : ParentRender(m, fresh)
    \/ \E r \in sm.reveals : RevealTick(r)
    \/ BlinkTick
    \/ Skip
    \/ UnmountMessage


(***************************************************************************)
(* The Connection Manager with its store: the hook is mounted with an      *)
(* empty session identifier, as AIChatPanel mounts it.                     *)
(***************************************************************************)
Init ==
    /\ store = InitialStore
    /\ now = 0
    /\ sessionId = ""
    /\ onMessage = FALSE
    /\ mounted = TRUE
    /\ connected = FALSE
    /\ wsRef = 0
    /\ reconnectRef = 0
    /\ tstate = [t \in Transports |-> "none"]
    /\ turl = [t \in Transports |-> ""]
    /\ tclose = [t \in Transports |-> ""]
    /\ timers = {}
    /\ outbox = <<>>
    /\ hist = <<>>
    /\ sm = NoInstance

\* the life cycle of the transports, with the component's sends
Next ==
    \/ \E s \in SessionIds : SetSessionId(s)
    \/ Unmount
    \/ \E t \in Transports : OnOpen(t)
    \/ \E t \in Transports, code \in Codes : OnClose(t, code)
    \/ \E t \in Transports : TimerFire(t)
    \/ \E p \in Payloads : Send(p)

Spec == Init /\ [][Next]_vars

\* the inbound side: frames arriving on the transports of one session after
\* another, with and without the legacy callback
MsgSetSessionId(s) == Render(s, MsgTransports)

MsgNext ==
    \/ \E s \in SessionIds : MsgSetSessionId(s)
    \/ SetOnMessage
    \/ \E t \in Transports : OnOpen(t)
    \/ \E t \in Transports, code \in Codes : OnClose(t, code)
    \/ \E t \in Transports : OnError(t)
    \/ \E t \in Transports, f \in Frames : OnMessage(t, f)

MsgSpec == Init /\ [][MsgNext]_vars

(***************************************************************************)
(* The store alone: handleMessage called with any message (by ws.onmessage *)
(* or by a component, as AIChatPanel does for the user's own message), the *)
(* local mutators, and the clock.                                          *)
(***************************************************************************)
Partial(id, text) ==
    [type |-> "ai_message", message_id |-> id, is_partial |-> TRUE, content |-> text]

\* messages that differ in how they enter the log
LogMsgs ==
    { Partial("m1", "Hel"),
      Partial("m1", "Hello"),
      Partial("m2", "Hi") @@ [reasoning |-> "why"],
      Partial("m2", "Hi!"),
      [type |-> "ai_message", message_id |-> "m1", content |-> "Hello!"],
      [type |-> "ai_message", message_id |-> "m1", is_partial |-> FALSE, content |-> "Bye"],
      [type |-> "ai_message", message_id |-> "", is_partial |-> TRUE, content |-> "anon"],
      [type |-> "user_message", content |-> "hi", is_partial |-> TRUE] }

ImageFile == [name |-> "a.jpg", type |-> "image", path |-> <<"x", "a.jpg">>,
              url |-> <<"http://h", "a.jpg">>, size |-> 100]

\* messages that differ in what they derive
DerivingMsgs ==
    { [type |-> "tool_call", tool |-> "broll_finder", step |-> "broll"],
      [type |-> "tool_result", tool |-> "script_writer", step |-> "script", success |-> TRUE,
       result |-> [script_text |-> "S1"]],
      [type |-> "tool_result", tool |-> "script_writer", step |-> "script", success |-> FALSE,
       error |-> "boom"],
      [type |-> "tool_result", tool |-> "broll_finder", step |-> "broll", success |-> TRUE,
       result |-> [downloaded_files |-> <<ImageFile>>, message |-> "found"],
       message_id |-> "m1", is_partial |-> TRUE],
      [type |-> "progress", percent |-> 40],
      [type |-> "error", detail |-> "boom"],
      [type |-> "adaptive", preferences |-> [tone |-> "casual"]],
      [type |-> "gui_update", update_type |-> "video_created",
       data |-> [final_video |-> <<"out", "v.mp4">>]],
      [type |-> "connection_established"],
      [type |-> "mystery", content |-> "?"],
      [content |-> "untyped"] }

StoreMsgs == LogMsgs \cup DerivingMsgs

\* the entries the store holds, over all its collections
Size(state) ==
    Len(state.messages) + Len(state.toolCalls) + Len(state.toolResults)
    + Len(state.scripts) + Len(state.projectFiles) + Len(state.videoPreviews)

\* the store stays within the bound
Room(state) == Size(state) < MaxSize

\* a call of handleMessage, lines 269-607; an error raised by the reducer
\* leaves the state as it was and reaches the caller
Call(msg, rnd) ==
    /\ IF Throws(msg)
       THEN /\ Len(hist) < MaxThrows
            /\ hist' = Append(hist, <<"throw", 0, Opt(msg, "type", "")>>)
            /\ UNCHANGED store
       ELSE /\ store' = handleMessage(store, msg, now, rnd)
            /\ UNCHANGED hist
    /\ UNCHANGED <<now, sessionId, onMessage, mounted, connected, wsRef, reconnectRef,
                   tstate, turl, tclose, timers, outbox>>
    /\ UNCHANGED sm

Dispatch(msg, rnd) == Room(store) /\ Call(msg, rnd)

\* a call of clearMessages, line 611
ClearMessages ==
    /\ store' = clearMessages(store)
    /\ UNCHANGED now
    /\ UNCHANGED connVars
    /\ UNCHANGED sm

\* time passes between two calls
Tick ==
    /\ now < MaxClock
    /\ now' = now + 1
    /\ UNCHANGED store
    /\ UNCHANGED connVars
    /\ UNCHANGED sm

LogNext ==
    \/ \E msg \in LogMsgs : \E rnd \in Draws(msg) : Dispatch(msg, rnd)
    \/ ClearMessages

LogSpec == Init /\ [][LogNext]_vars

StoreNext ==
    \/ \E msg \in StoreMsgs : \E rnd \in Draws(msg) : Dispatch(msg, rnd)
    \/ ClearMessages

StoreSpec == Init /\ [][StoreNext]_vars

(***************************************************************************)
(* The artifacts the store derives: the tool results and GUI updates of    *)
(* the four artifact kinds, well-formed and not, at different times.       *)
(***************************************************************************)
ScriptDoc == [name |-> "s.txt", type |-> "script", path |-> <<"x", "s.txt">>]

ToolResult(tool, success, result) ==
    [type |-> "tool_result", tool |-> tool, step |-> tool, success |-> success,
     result |-> result]

GuiUpdate(kind, data) == [type |-> "gui_update", update_type |-> kind, data |-> data]

Kinds == {"script", "media", "voiceover", "video"}

\* the payload of an artifact, under the field names of a tool result
ResultOf(kind) ==
    CASE kind = "script" -> [script_text |-> "S1"]
      [] kind = "media" -> [downloaded_files |-> <<ImageFile, ScriptDoc>>]
      [] kind = "voiceover" -> [audio_path |-> <<"out", "a.mp3">>]
      [] kind = "video" -> [video_path |-> <<"out", "v.mp4">>,
                            thumbnail |-> <<"out", "v.jpg">>]

\* the same payload under the field names of a GUI update
DataOf(kind) ==
    CASE kind = "script" -> [script_content |-> "S1"]
      [] kind = "media" -> [downloaded_files |-> <<ImageFile, ScriptDoc>>]
      [] kind = "voiceover" -> [voiceover_file |-> <<"out", "a.mp3">>]
      [] kind = "video" -> [final_video |-> <<"out", "v.mp4">>,
                            thumbnail |-> <<"out", "v.jpg">>]

ToolOf(kind) ==
    CASE kind = "script" -> "script_writer"
      [] kind = "media" -> "broll_finder"
      [] kind = "voiceover" -> "voiceover_generator"
      [] kind = "video" -> "video_processor"

UpdateTypeOf(kind) ==
    CASE kind = "script" -> "script_created"
      [] kind = "media" -> "media_downloaded"
      [] kind = "voiceover" -> "voiceover_created"
      [] kind = "video" -> "video_created"

ToolMsg(kind) == ToolResult(ToolOf(kind), TRUE, ResultOf(kind))
GuiMsg(kind) == GuiUpdate(UpdateTypeOf(kind), DataOf(kind))

BrollPaths ==
    [file_paths |-> << <<"Projects", "p7", "b.jpg">>, <<"tmp", "c.mp4">> >>,
     downloaded_files |-> <<>>,
     metadata |-> <<[title |-> "B", file_type |-> "Image"]>>,
     source_types |-> <<"pexels">>]

ArtifactMsgs ==
    {ToolMsg(k) : k \in Kinds} \cup {GuiMsg(k) : k \in Kinds} \cup
    { ToolResult("script_writer", FALSE, [script_text |-> "S2"]),
      [type |-> "tool_result", tool |-> "script_writer", success |-> TRUE],
      [type |-> "tool_result", tool |-> "video_processor", success |-> FALSE,
       error |-> "boom"],
      ToolResult("broll_finder", TRUE,
                 [downloaded_files |-> <<ScriptDoc>>,
                  file_paths |-> << <<"tmp", "c.mp4">>, <<"tmp", "d.mp4">> >>]),
      ToolResult("broll_finder", TRUE, BrollPaths),
      ToolResult("broll_finder", TRUE, [downloaded_files |-> <<>>, file_paths |-> <<>>]),
      ToolResult("broll_finder", TRUE, [count |-> 0]),
      ToolResult("broll_finder", TRUE, [downloaded_files |-> <<JsNull>>]),
      [type |-> "gui_update", update_type |-> "script_created"],
      GuiUpdate("script_created", [script_content |-> "S3"]),
      [type |-> "mystery", content |-> "?"],
      [content |-> "untyped"] }

ArtifactDispatch(msg, rnd) == Size(store) < MaxArtifacts /\ Call(msg, rnd)

ArtifactNext ==
    \/ \E msg \in ArtifactMsgs : \E rnd \in Draws(msg) : ArtifactDispatch(msg, rnd)
    \/ Tick

ArtifactSpec == Init /\ [][ArtifactNext]_vars

(***************************************************************************)
(* The single-valued slots of the store: progress, error and the user      *)
(* context.                                                                *)
(***************************************************************************)
SlotMsgs ==
    { [type |-> "progress", percent |-> 40, status |-> "working", step |-> "broll"],
      [type |-> "progress", percent |-> 50],
      [type |-> "progress", status |-> "done"],
      [type |-> "progress", percent |-> 0, status |-> "", step |-> ""],
      [type |-> "error", detail |-> "d1", message |-> "m1"],
      [type |-> "error", message |-> "m2"],
      [type |-> "error", detail |-> "", message |-> "m3"],
      [type |-> "error", detail |-> "", message |-> ""],
      [type |-> "error"],
      [type |-> "adaptive", preferences |-> [tone |-> "casual"]],
      [type |-> "context_update", preferences |-> [tone |-> "formal", pace |-> "fast"]],
      [type |-> "adaptive", preferences |-> [pace |-> "slow"]],
      [type |-> "context_update", preferences |-> EmptyObj],
      [type |-> "adaptive", content |-> "noted"] }

SlotNext == \E msg \in SlotMsgs : \E rnd \in Draws(msg) : Dispatch(msg, rnd)

SlotSpec == Init /\ [][SlotNext]_vars

(***************************************************************************)
(* The tool calls: tool_call messages, repeated, partial and bare, among   *)
(* other dispatches and the calls of the store's local mutators.           *)
(***************************************************************************)
CallMsgs ==
    { [type |-> "tool_call", tool |-> "broll_finder", step |-> "broll",
       args |-> [topic |-> "cats"], description |-> "find"],
      [type |-> "tool_call", tool |-> "broll_finder", step |-> "broll",
       message_id |-> "m1", is_partial |-> TRUE],
      [type |-> "tool_call"],
      Partial("m1", "Hel"),
      ToolMsg("script") }

CallDispatch(msg, rnd) == Size(store) < MaxCalls /\ Call(msg, rnd)

\* the calls of the local mutators, lines 609-634
SetConnectionStatus ==
    /\ \E status \in {"connecting", "connected", "reconnecting", "disconnected"} :
          store' = setConnectionStatus(store, status)
    /\ UNCHANGED now
    /\ UNCHANGED connVars
    /\ UNCHANGED sm

SetError ==
    /\ \E error \in {NullError, SocketError} : store' = setError(store, error)
    /\ UNCHANGED now
    /\ UNCHANGED connVars
    /\ UNCHANGED sm

AddScript ==
    /\ Size(store) < MaxCalls
    /\ store' = addScript(store, ScriptEntry("S9", now))
    /\ UNCHANGED now
    /\ UNCHANGED connVars
    /\ UNCHANGED sm

AddProjectFile ==
    /\ Size(store) < MaxCalls
    /\ \E file \in {ScriptDoc, ImageFile} :
          store' = addProjectFile(store, DownloadedFile(file, now, 1))
    /\ UNCHANGED now
    /\ UNCHANGED connVars
    /\ UNCHANGED sm

AddVideoPreview ==
    /\ Size(store) < MaxCalls
    /\ store' = addVideoPreview(store, PreviewEntry(<<"out", "v.mp4">>, <<>>, now))
    /\ UNCHANGED now
    /\ UNCHANGED connVars
    /\ UNCHANGED sm

\* a click on a file of the Project Files tab (part_006 lines 62-64)
SelectFile ==
    /\ \E i \in 1..Len(store.projectFiles) : store' = selectFile(store, store.projectFiles[i])
    /\ UNCHANGED now
    /\ UNCHANGED connVars
    /\ UNCHANGED sm

UpdateUserContext ==
    /\ store' = updateUserContext(store, [tone |-> "casual"])
    /\ UNCHANGED now
    /\ UNCHANGED connVars
    /\ UNCHANGED sm

ClearScripts ==
    /\ store' = clearScripts(store)
    /\ UNCHANGED now
    /\ UNCHANGED connVars
    /\ UNCHANGED sm

ClearScriptFiles ==
    /\ store' = clearScriptFiles(store)
    /\ UNCHANGED now
    /\ UNCHANGED connVars
    /\ UNCHANGED sm

CallNext ==
    \/ \E msg \in CallMsgs : \E rnd \in Draws(msg) : CallDispatch(msg, rnd)
    \/ ClearMessages
    \/ SetConnectionStatus
    \/ SetError
    \/ AddScript
    \/ AddProjectFile
    \/ AddVideoPreview
    \/ SelectFile
    \/ UpdateUserContext
    \/ ClearScripts
    \/ ClearScriptFiles

CallSpec == Init /\ [][CallNext]_vars

(***************************************************************************)
(* The manager while the session identifier is set and stays set, with no  *)
(* bound on the transports a session uses up: a closed transport that      *)
(* nothing refers to any more is collected and its place reused.           *)
(***************************************************************************)
\* a render that sets the session identifier, or moves it on to the last
\* one: it stays set from then on
Resume(s) ==
    /\ s # ""
    /\ sessionId # "s2"
    /\ Render(s, MaxTransports)

\* the closed transport t, held neither by wsRef nor by a pending timer's
\* closure, is collected
Reclaim(t) ==
    /\ tstate[t] = "closed"
    /\ t \notin timers
    /\ wsRef # t
    /\ tstate' = [tstate EXCEPT ![t] = "none"]
    /\ turl' = [turl EXCEPT ![t] = ""]
    /\ tclose' = [tclose EXCEPT ![t] = ""]
    /\ UNCHANGED <<store, now, sessionId, onMessage, mounted, connected, wsRef,
                   reconnectRef, timers, outbox, hist>>
    /\ UNCHANGED sm

\* the reconnect timer of transport t fires (line 58) with the session
\* identifier set: connect runs, and t, closed and now held by no timer, is
\* collected once connect has replaced it
RetryFire(t) ==
    /\ t \in timers
    /\ sessionId # ""
    /\ LET h == IF CurrentIsOpen THEN Hook
                ELSE [Hook EXCEPT !.tstate[t] = "none", !.tclose[t] = ""]
           h1 == connect([h EXCEPT !.timers = @ \ {t}], sessionId, turl[t])
       IN SetHook(IF h1.tstate[t] = "none" THEN [h1 EXCEPT !.turl[t] = ""] ELSE h1)
    /\ UNCHANGED <<store, now, sessionId, onMessage, mounted, connected, outbox, hist>>
    /\ UNCHANGED sm

\* the transport event that ends a connection attempt or a close handshake
Settle(t) ==
    /\ tstate[t] # "open"
    /\ OnOpen(t) \/ \E code \in Codes : OnClose(t, code)

RetryNext ==
    \/ \E s \in SessionIds : Resume(s)
    \/ \E t \in Transports : OnOpen(t)
    \/ \E t \in Transports, code \in Codes : OnClose(t, code)
    \/ \E t \in Transports : OnError(t)
    \/ \E t \in Transports : RetryFire(t)
    \/ \E t \in Transports : Reclaim(t)

\* timers fire and transport events arrive: a timeout that is not cleared
\* runs its callback, and a transport that is connecting or closing gets its
\* open or close event
RetrySpec ==
    /\ Init
    /\ [][RetryNext]_vars
    /\ WF_vars(\E t \in Transports : RetryFire(t))
    /\ WF_vars(\E t \in Transports : Settle(t))

\* One message instance of the chat panel, from its mount to its unmount
StreamSpec == Init /\ [][StreamNext]_vars

(***************************************************************************)
(* Claims about the message log.                                           *)
(***************************************************************************)
DispatchOf(msg) == \E rnd \in Draws(msg) : Dispatch(msg, rnd)

\* the entries of a log that carry message_id id
WithId(messages, id) ==
    {i \in 1..Len(messages) : Has(messages[i], "message_id") /\ messages[i].message_id = id}

LastWithId(messages, id) ==
    CHOOSE i \in WithId(messages, id) : \A j \in WithId(messages, id) : j <= i

\* the log after the step is the log before it with entry k alone replaced
ReplacedAt(k) ==
    /\ Len(store'.messages) = Len(store.messages)
    /\ \A i \in 1..Len(store.messages) : i # k => store'.messages[i] = store.messages[i]

C1_Post(msg) ==
    IF TruthyStr(msg, "message_id") /\ TruthyBool(msg, "is_partial")
    THEN WithId(store.messages, msg.message_id) # {}
            => ReplacedAt(LastWithId(store.messages, msg.message_id))
    ELSE store'.messages = Append(store.messages, msg)

\* C1: a dispatch of a partial message whose message_id the log already holds
\* replaces the most recent entry with that message_id and leaves the length of
\* the log alone; a dispatch of a message without message_id, or not partial,
\* appends the message as the last entry of the log.
C1_ReplacesMostRecent == [][\A msg \in LogMsgs : DispatchOf(msg) => C1_Post(msg)]_vars

\* an entry of the log is, after the step, as it was or merged with a message
\* that carries its message_id
KeepsLog(old, new) ==
    \/ new = old
    \/ /\ Has(old, "message_id")
       /\ \E msg \in StoreMsgs :
             /\ Has(msg, "message_id")
             /\ msg.message_id = old.message_id
             /\ new = Spread(old, msg)

\* C9: no dispatch removes an entry of the log or changes the order of the
\* entries in it (every entry stays where it was, as it was or merged with an
\* update of it), and a step that shortens the log is a clearMessages.
C9_LogAppendReplaceOnly ==
    [][ IF Len(store'.messages) < Len(store.messages)
        THEN ClearMessages
        ELSE \A i \in 1..Len(store.messages) :
                KeepsLog(store.messages[i], store'.messages[i]) ]_vars

\* a partial update has been merged into the first of several entries
C9_Witness ==
    /\ Len(store.messages) >= 2
    /\ store.messages[1] = Spread(Partial("m2", "Hi") @@ [reasoning |-> "why"], Partial("m2", "Hi!"))

(***************************************************************************)
(* Claims about the Connection Manager.                                    *)
(***************************************************************************)
Status == store.connectionStatus

C2_Close(t, code) ==
    OnClose(t, code) =>
        IF code # NormalClosure /\ sessionId # ""
        THEN /\ timers \subseteq timers'
             /\ Cardinality(timers' \ timers) = 1
             /\ store'.connectionStatus = "reconnecting"
        ELSE /\ timers' = timers
             /\ store'.connectionStatus = "disconnected"

\* C2: a close with a code other than 1000 while the session identifier is set
\* schedules exactly one reconnect timer, and the status is 'reconnecting' for
\* as long as that timer is pending; a close with code 1000, or with the
\* session identifier empty, schedules none and leaves the status 'disconnected'.
C2_ReconnectPolicy ==
    [][ /\ \A t \in Transports, code \in Codes : C2_Close(t, code)
        /\ timers' # {} => store'.connectionStatus = "reconnecting" ]_vars

LiveTransports == {t \in Transports : tstate[t] \in Live}

\* C3: at most one transport of the instance is connecting or open, and it is
\* the one wsRef holds.
C3_OneLiveTransport ==
    /\ Cardinality(LiveTransports) <= 1
    /\ \A t \in LiveTransports : wsRef = t

\* a transport is live while an earlier one, closed by the manager, still
\* waits for its close event, and a reconnect timer is pending
C3_Witness ==
    \E t1, t2 \in Transports :
        /\ t1 < t2
        /\ tstate[t1] \in {"aborting", "closing"}
        /\ tstate[t2] \in Live
        /\ timers # {}

\* connect is about to run, or has run, on an open transport of its session
OpenForSame(t) == wsRef # 0 /\ tstate[wsRef] = "open" /\ turl[wsRef] = turl[t]

\* C4: connect called while the current transport of the same session
\* identifier is open, or while the session identifier is empty, closes no
\* transport, creates none and changes no state (the timer that called it is
\* spent).
C4_ConnectNoOp ==
    [][ \A t \in Transports :
          TimerFire(t) /\ (OpenForSame(t) \/ sessionId = "")
            => /\ timers' = timers \ {t}
               /\ UNCHANGED <<store, connected, sessionId, wsRef, reconnectRef,
                              tstate, turl, tclose, outbox>> ]_vars

\* a reconnect timer is pending while the current transport, addressed as the
\* timer's connect is, is open
C4_Witness == \E t \in timers : OpenForSame(t)

\* C5: clearing the session identifier cancels every pending reconnect timer,
\* closes the live transport with the normal-closure code 1000 and sets the
\* status to 'disconnected'; while the identifier stays empty no timer is
\* scheduled and no transport is created.
C5_Teardown ==
    [][ /\ Render("", MaxTransports)
           => /\ timers' = {}
              /\ \A t \in LiveTransports : tstate'[t] \notin Live /\ tclose'[t] = "close(1000)"
              /\ store'.connectionStatus = "disconnected"
        /\ sessionId = "" /\ sessionId' = ""
           => /\ timers' \subseteq timers
              /\ \A t \in Transports : tstate[t] = "none" => tstate'[t] = "none" ]_vars

\* C6: at most one reconnect timer is pending, and reconnectRef holds it.
C6_OneTimer ==
    /\ Cardinality(timers) <= 1
    /\ timers # {} => reconnectRef \in timers

\* C7: a call of sendMessage transmits one frame if and only if the manager
\* is connected; a payload sent while it is not connected is dropped.
C7_SendIffConnected ==
    mounted =>
        \A p \in Payloads :
            /\ connected => sendMessage(p) = Append(outbox, <<wsRef, p>>)
            /\ ~connected => sendMessage(p) = outbox

(***************************************************************************)
(* Claims about inbound frames.                                            *)
(***************************************************************************)
\* the frames of hist's events of one kind on transport t, in order
FramesOf(events, kind, t) ==
    LET sel == SelectSeq(events, LAMBDA e : e[1] = kind /\ e[2] = t)
    IN [i \in 1..Len(sel) |-> sel[i][3]]

\* the log the store holds after the dispatches recorded in events, in order
RECURSIVE Replay(_, _)
Replay(messages, events) ==
    IF events = <<>> THEN messages
    ELSE LET e == Head(events)
         IN Replay(IF e[1] = "dispatch" /\ ~Throws(Decode(e[3]))
                   THEN LogUpdate(messages, Decode(e[3])) ELSE messages,
                   Tail(events))

\* transport t has delivered a frame that did not decode
SawBadFrame(t) == \E i \in 1..Len(hist) : hist[i][1] = "recv" /\ hist[i][2] = t /\ ~Decodes(hist[i][3])

\* C8: a frame that fails to decode leaves the log and every derived
\* collection as they were, sets the error slot to the decode error, leaves the
\* transport open and the status as it was, schedules no reconnect; frames that
\* arrive later on the same transport are dispatched.
C8_DecodeFailure ==
    [][ \A t \in Transports, f \in Frames :
          tstate[t] = "open" /\ hist' # hist /\ OnMessage(t, f)
            => /\ ~Decodes(f)
                    => /\ store' = [store EXCEPT !.error = ParseError]
                       /\ UNCHANGED <<tstate, timers, reconnectRef, wsRef, connected>>
               /\ Decodes(f) /\ SawBadFrame(t)
                    => /\ FramesOf(hist', "dispatch", t)
                            = Append(FramesOf(hist, "dispatch", t), f)
                       /\ ~Throws(Decode(f))
                            => store'.messages = LogUpdate(store.messages, Decode(f))
      ]_vars

\* a transport delivered a frame that did not decode and then one that was
\* dispatched and entered in the log
C8_Witness ==
    \E i, j \in 1..Len(hist) :
        /\ i < j
        /\ hist[i][1] = "recv" /\ ~Decodes(hist[i][3])
        /\ hist[j][1] = "dispatch" /\ hist[j][2] = hist[i][2]
        /\ store.error = ParseError
        /\ store.messages # <<>>

\* C10: the frames of a transport that decode are dispatched to the store
\* once each and in the order of their delivery, the log is the result of
\* these dispatches in that order, and the legacy callback is called with a
\* frame only after the store's dispatch of that frame.
C10_OrderedDispatch ==
    /\ \A t \in Transports :
          FramesOf(hist, "dispatch", t) = SelectSeq(FramesOf(hist, "recv", t), Decodes)
    /\ store.messages = Replay(<<>>, hist)
    /\ \A i \in 1..Len(hist) :
          hist[i][1] = "callback"
            => i > 1 /\ hist[i - 1] = <<"dispatch", hist[i][2], hist[i][3]>>

\* one transport has delivered two frames that decode, the callback being
\* called for the later one
C10_Witness ==
    \E t \in Transports :
        /\ Len(FramesOf(hist, "dispatch", t)) >= 2
        /\ hist[Len(hist)][1] = "callback"
        /\ Len(store.messages) >= 1

(***************************************************************************)
(* Claims about the derived collections.                                   *)
(***************************************************************************)
ArtifactDispatchOf(msg) == \E rnd \in Draws(msg) : ArtifactDispatch(msg, rnd)

TypeOf(msg) == Opt(msg, "type", "")

\* the files of type 'script' among projectFiles
ScriptFiles(files) == {i \in 1..Len(files) : files[i].type = "script"}

IsScriptMsg(msg) ==
    \/ TypeOf(msg) = "tool_result" /\ Opt(msg, "tool", "") = "script_writer"
    \/ TypeOf(msg) = "gui_update" /\ Opt(msg, "update_type", "") = "script_created"

\* the script text the message carries, '' when it carries none
ScriptTextOf(msg) ==
    IF TypeOf(msg) = "tool_result"
    THEN Opt(Opt(msg, "result", EmptyObj), "script_text", "")
    ELSE Opt(Opt(msg, "data", EmptyObj), "script_content", "")

\* C11: right after the dispatch of a tool_result with tool 'script_writer' or
\* of a gui_update with update_type 'script_created', projectFiles holds no
\* entry of type 'script', and scripts has grown by exactly one entry when the
\* message carries a non-empty script text.
C11_ScriptPurge ==
    [][ \A msg \in ArtifactMsgs :
          ArtifactDispatchOf(msg) /\ IsScriptMsg(msg)
            => /\ ScriptFiles(store'.projectFiles) = {}
               /\ ScriptTextOf(msg) # ""
                    => Len(store'.scripts) = Len(store.scripts) + 1 ]_vars

\* C12: the dispatch of a progress message overwrites the progress value field
\* by field: percent, status and step each take the value of the message when
\* the message has the field and keep their previous value when it has not.
C12_ProgressFieldwise ==
    [][ \A msg \in SlotMsgs :
          DispatchOf(msg) /\ TypeOf(msg) = "progress"
            => store'.progress =
                 [percent |-> Opt(msg, "percent", store.progress.percent),
                  status |-> Opt(msg, "status", store.progress.status),
                  step |-> Opt(msg, "step", store.progress.step)] ]_vars

\* the log before the step is a prefix of the sequence xs
Extends(xs, old) == Len(xs) >= Len(old) /\ SubSeq(xs, 1, Len(old)) = old

\* C13: the dispatch of a tool_result message appends exactly one ToolResult;
\* when success is not true or the result payload is absent, the dispatch
\* leaves scripts, projectFiles and videoPreviews as they were, whatever the
\* tool.
C13_ToolResultFrame ==
    [][ \A msg \in ArtifactMsgs :
          ArtifactDispatchOf(msg) /\ TypeOf(msg) = "tool_result"
            => /\ Len(store'.toolResults) = Len(store.toolResults) + 1
               /\ Extends(store'.toolResults, store.toolResults)
               /\ ~TruthyBool(msg, "success") \/ ~Has(msg, "result")
                    => /\ store'.scripts = store.scripts
                       /\ store'.projectFiles = store.projectFiles
                       /\ store'.videoPreviews = store.videoPreviews ]_vars

IsBrollResult(msg) ==
    /\ TypeOf(msg) = "tool_result"
    /\ Opt(msg, "tool", "") = "broll_finder"
    /\ TruthyBool(msg, "success")

\* the paths of the ProjectFiles a successful broll_finder result is to add
BrollPathsOf(msg) ==
    LET result == Opt(msg, "result", EmptyObj)
    IN IF NonEmptySeq(result, "downloaded_files")
       THEN [i \in 1..Len(result.downloaded_files) |->
                Opt(result.downloaded_files[i], "path", <<>>)]
       ELSE IF NonEmptySeq(result, "file_paths") THEN result.file_paths
       ELSE <<>>

\* C14: a successful broll_finder tool_result with a non-empty
\* result.downloaded_files appends one ProjectFile per entry, in order, and
\* ignores result.file_paths; with downloaded_files absent or empty and
\* file_paths not empty it appends one ProjectFile per path; with both absent or
\* empty projectFiles is unchanged; the entries projectFiles held are kept.
C14_BrollFiles ==
    [][ \A msg \in ArtifactMsgs :
          ArtifactDispatchOf(msg) /\ IsBrollResult(msg)
            => /\ Extends(store'.projectFiles, store.projectFiles)
               /\ Len(store'.projectFiles)
                    = Len(store.projectFiles) + Len(BrollPathsOf(msg))
               /\ \A i \in 1..Len(BrollPathsOf(msg)) :
                     store'.projectFiles[Len(store.projectFiles) + i].path
                       = BrollPathsOf(msg)[i] ]_vars

\* the types of the entries of projectFiles, in order
FileTypes(files) == [i \in 1..Len(files) |-> files[i].type]

\* the contents of the entries of scripts, in order
ScriptTexts(scripts) == [i \in 1..Len(scripts) |-> scripts[i].content]

\* the path and status of the entries of videoPreviews, in order
Previews(previews) ==
    [i \in 1..Len(previews) |-> <<previews[i].path, previews[i].status>>]

\* two states hold the same scripts, as many files of the same types, and the
\* same previews
SameArtifacts(a, b) ==
    /\ ScriptTexts(a.scripts) = ScriptTexts(b.scripts)
    /\ FileTypes(a.projectFiles) = FileTypes(b.projectFiles)
    /\ Previews(a.videoPreviews) = Previews(b.videoPreviews)

Passthrough ==
    {"ai_message", "thinking", "reasoning", "tool_execution_start",
     "tool_execution_complete", "tool_progress", "decision_context",
     "decision_option", "decision_made", "informational", "interactive",
     "connection_established", "approval_received", "workflow_complete"}

\* C16: the dispatch of a message of a passthrough type changes the message
\* log only: connectionStatus, error, toolCalls, toolResults, progress,
\* scripts, projectFiles, videoPreviews, selectedFile and userContext are as
\* they were.
C16_PassthroughLogOnly ==
    [][ \A msg \in StoreMsgs :
          DispatchOf(msg) /\ TypeOf(msg) \in Passthrough
            => store' = [store EXCEPT !.messages = store'.messages] ]_vars

\* the types the switch of handleMessage has a case for
KnownTypes ==
    Passthrough \cup {"tool_call", "tool_result", "progress", "error", "adaptive",
                      "context_update", "gui_update"}

\* C17: the dispatch of a decoded message whose type is missing or not
\* recognized, or whose fields are not of the shape its type expects, raises no
\* error: the message is entered in the log as it is, and nothing but the log
\* changes when the type is missing or not recognized.
C17_NeverRaises ==
    [][ \A msg \in ArtifactMsgs :
          ArtifactDispatchOf(msg)
            => /\ hist' = hist
               /\ Extends(store'.messages, Append(store.messages, msg))
               /\ TypeOf(msg) \notin KnownTypes
                    => store' = [store EXCEPT !.messages = Append(@, msg)] ]_vars

\* C18: dispatch is deterministic: the state after the dispatch of a message
\* is the one any other dispatch of the same message in the same state yields,
\* identifiers and timestamps of the created entries included.
C18_Deterministic ==
    [][ \A msg \in ArtifactMsgs :
          ArtifactDispatchOf(msg) /\ ~Throws(msg)
            => \A t \in 0..MaxClock, rnd \in Draws(msg) :
                  store' = handleMessage(store, msg, t, rnd) ]_vars

\* detail when it is not empty, else message when it is not empty, else the
\* fixed fallback
ErrorTextOf(msg) ==
    IF Has(msg, "detail") /\ msg.detail # "" THEN msg.detail
    ELSE IF Has(msg, "message") /\ msg.message # "" THEN msg.message
    ELSE "Unknown error"

\* C19: the dispatch of an error message sets the error slot to the detail of
\* the message when it is not empty, else to its message field when that is
\* not empty, else to the fixed fallback string; the message is entered in the
\* log and nothing else changes.
C19_ErrorSlot ==
    [][ \A msg \in SlotMsgs :
          DispatchOf(msg) /\ TypeOf(msg) = "error"
            => store' = [store EXCEPT !.error = ErrorTextOf(msg),
                                      !.messages = Append(@, msg)] ]_vars

\* an error with an empty detail has set the slot to its message field, over
\* the error an earlier message had set
C19_Witness ==
    /\ Len(store.messages) >= 2
    /\ store.messages[Len(store.messages)] = [type |-> "error", detail |-> "", message |-> "m3"]
    /\ store.messages[1] = [type |-> "error", detail |-> "d1", message |-> "m1"]
    /\ store.error = "m3"

\* the preferences that the adaptive and context_update messages of a log
\* leave, taken in order from prefs: every key of a message with its value,
\* every other key as it was
RECURSIVE MergedPrefs(_, _)
MergedPrefs(prefs, msgs) ==
    IF msgs = <<>> THEN prefs
    ELSE LET m == Head(msgs)
             merged == [k \in DOMAIN prefs \cup DOMAIN m.preferences |->
                           IF k \in DOMAIN m.preferences THEN m.preferences[k] ELSE prefs[k]]
         IN MergedPrefs(IF TypeOf(m) \in {"adaptive", "context_update"} /\ Has(m, "preferences")
                        THEN merged ELSE prefs,
                        Tail(msgs))

\* C20: after any sequence of adaptive and context_update messages,
\* userContext.preferences holds every key a message of the sequence supplied,
\* with the value of the latest message that supplied it, and every earlier key
\* not overwritten; style, tone and length are as they were, and a message
\* without preferences leaves userContext as it was.
C20_PreferencesMerge ==
    /\ store.userContext.preferences = MergedPrefs(EmptyObj, store.messages)
    /\ store.userContext.style = InitialStore.userContext.style
    /\ store.userContext.tone = InitialStore.userContext.tone
    /\ store.userContext.length = InitialStore.userContext.length

\* a later message has overwritten one key and kept the other, and a message
\* without preferences has followed
C20_Witness ==
    /\ store.userContext.preferences = [tone |-> "formal", pace |-> "slow"]
    /\ store.messages[Len(store.messages)] = [type |-> "adaptive", content |-> "noted"]


(***************************************************************************)
(* Claims about the Streaming Presentation Adapter                         *)
(***************************************************************************)
\* the instance is mounted with a message that was never replaced and never
\* skipped: an ai_message with text that is not partial
Unbroken(i) ==
    /\ i.phase = "mounted"
    /\ Opt(i.message, "type", "") = "ai_message"
    /\ fullText(i.message) # <<>>
    /\ ~TruthyBool(i.message, "is_partial")
    /\ ~i.skipped
    /\ ~i.replaced

\* the displayed text is the first i.ticks characters of the full text, and a
\* complete instance has made all N reveal ticks, shows the full text, is not
\* streaming and hides the cursor
RevealedByTicks(i) ==
    LET text == fullText(i.message)
    IN /\ i.ticks <= Len(text)
       /\ Len(i.displayedText) = i.ticks
       /\ \A k \in 1..i.ticks : i.displayedText[k] = text[k]
       /\ i.isComplete => /\ i.ticks = Len(text)
                          /\ i.displayedText = text
                          /\ ~i.isStreaming
                          /\ ~i.showCursor

Skipped(i) ==
    /\ i.displayedText = fullText(i.message)
    /\ i.reveals = {}
    /\ ~i.showCursor
    /\ ~i.isStreaming
    /\ i.isComplete

\* C22: a skip taken while the instance is streaming sets, in one step, the
\* displayed text to the full text, stops the reveal timer, hides the cursor
\* and makes the instance complete; after a skip the instance stays complete
\* with the full text shown, as long as it is mounted with the same message.
C22_SkipCompletes ==
    [][ /\ Skip => Skipped(sm')
        /\ (sm.skipped /\ sm.isComplete /\ sm'.phase = "mounted" /\ sm'.message = sm.message)
             => (sm'.isComplete /\ sm'.displayedText = fullText(sm.message)) ]_vars


\* C23: an instance first visible with a message whose type is not
\* ai_message, or with a message of any type that has no text, goes straight
\* to complete: once the effects of its first render have run, isComplete is
\* true, isStreaming is false, the cursor is hidden, the displayed text is the
\* full text, and no reveal timer was started.
C23_StraightToComplete ==
    ( /\ sm.phase = "mounted"
      /\ ~Pending(sm)
      /\ ~sm.replaced
      /\ Opt(sm.message, "type", "") # "ai_message" \/ fullText(sm.message) = <<>> )
    => /\ sm.isComplete
       /\ ~sm.isStreaming
       /\ ~sm.showCursor
       /\ sm.displayedText = fullText(sm.message)
       /\ sm.started = 0
       /\ sm.reveals = {}


\* the message carries is_partial = true and has text
PartialText(m) ==
    /\ Opt(m, "type", "") = "ai_message"
    /\ TruthyBool(m, "is_partial")
    /\ fullText(m) # <<>>

\* the effects run for a message they have not seen yet
SeesUpdate ==
    /\ RunEffects
    /\ sm.messageDeps = <<>> \/ sm.messageDeps[1] # sm.message

\* C24: while the mounted message carries is_partial = true and has text,
\* the effects of every update of the message show the cursor, and whenever
\* the effects have run (and no skip was taken) the displayed text is the
\* current full text verbatim and the instance is streaming and not complete.
C24_PartialVerbatim ==
    [][ /\ (SeesUpdate /\ PartialText(sm.message)) => sm'.showCursor
        /\ (sm'.phase = "mounted" /\ PartialText(sm'.message) /\ ~Pending(sm') /\ ~sm'.skipped)
             => /\ sm'.displayedText = fullText(sm'.message)
                /\ sm'.isStreaming
                /\ ~sm'.isComplete ]_vars


\* C25: the completion callback is invoked exactly once when the instance
\* reaches complete through the reveal timer, and never more than once per
\* instance on any path to complete.
C25_CallbackOnce ==
    /\ sm.calls <= 1
    /\ (Unbroken(sm) /\ ~TruthyBool(sm.message, "is_complete") /\ sm.isComplete)
         => sm.calls = 1


\* C26: in every reachable state of a message instance at most one reveal
\* timer and at most one cursor-blink timer are live, and after the instance
\* unmounts neither timer is live (so no tick of either can change state).
C26_OneTimerEach ==
    /\ Cardinality(sm.reveals) <= 1
    /\ sm.blinks <= 1
    /\ sm.phase = "unmounted" => (sm.reveals = {} /\ sm.blinks = 0)

\* the instance was unmounted in the middle of a reveal, with one of two
\* characters shown and the cursor blinking: both timers were live
C26_Witness ==
    /\ sm.phase = "unmounted"
    /\ sm.isStreaming
    /\ sm.showCursor
    /\ sm.cursorDeps = <<TRUE>>
    /\ sm.started = 1
    /\ sm.ticks = 1
    /\ sm.displayedText = <<"a">>
    /\ sm.reveals = {}
    /\ sm.blinks = 0


\* C27: when the message of a mounted instance is replaced by new content
\* while its reveal timer is running, the running timer is cleared: once the
\* effects of the replacement have run no reveal timer of another text than
\* the current one is live, so no tick appends characters of the old text or
\* marks the instance complete for it.
C27_ReplaceClearsTimer ==
    (sm.phase = "mounted" /\ ~Pending(sm))
      => \A r \in sm.reveals : r.fullText = fullText(sm.message)


\* C28: while an instance is streaming, the cursor-blink timer is live (so a
\* cursor that was toggled off is toggled on again at the next blink); the
\* blink timer is not live once the instance is complete or unmounted.
\* Stated for the states in which the effects of the last render have run.
C28_BlinkWhileStreaming ==
    /\ (sm.phase = "mounted" /\ ~Pending(sm) /\ sm.isStreaming) => sm.blinks = 1
    /\ (sm.phase = "mounted" /\ ~Pending(sm) /\ sm.isComplete) => sm.blinks = 0
    /\ sm.phase = "unmounted" => sm.blinks = 0


(***************************************************************************)
(* Claims about the current script and the tool calls                      *)
(***************************************************************************)
\* the script-producing messages of a log that carried a non-empty text
ScriptEvents(log) ==
    SelectSeq(log, LAMBDA m : IsScriptMsg(m) /\ ScriptTextOf(m) # "")

\* C29: the current script equals the script text of the most recent
\* script-producing message (script_writer tool_result or script_created
\* gui_update) that carried a non-empty script text, whichever kind came
\* last; with no such message it is the content of the last entry of scripts,
\* and the empty string when that list is empty too.
C29_CurrentScript ==
    LET events == ScriptEvents(store.messages)
    IN script(store) =
         IF events # <<>> THEN ScriptTextOf(events[Len(events)])
         ELSE IF Len(store.scripts) > 0 THEN store.scripts[Len(store.scripts)].content
         ELSE ""


CallDispatchOf(msg) == \E rnd \in Draws(msg) : CallDispatch(msg, rnd)

\* the ToolCall of a tool_call message: its four fields, an absent one as the
\* empty string or the empty object
ExpectedCall(msg) ==
    [ tool |-> IF Has(msg, "tool") THEN msg.tool ELSE "",
      args |-> IF Has(msg, "args") THEN msg.args ELSE EmptyObj,
      step |-> IF Has(msg, "step") THEN msg.step ELSE "",
      description |-> IF Has(msg, "description") THEN msg.description ELSE "" ]

\* C30: every dispatch of a tool_call message appends exactly one ToolCall at
\* the end of toolCalls, also when it repeats the tool and step of an earlier
\* call and when the message replaced a log entry; no dispatch and no local
\* mutator changes or removes an existing ToolCall.
C30_ToolCallsAppendOnly ==
    [][ /\ \A msg \in CallMsgs :
             CallDispatchOf(msg) /\ TypeOf(msg) = "tool_call"
               => store'.toolCalls = Append(store.toolCalls, ExpectedCall(msg))
        /\ Extends(store'.toolCalls, store.toolCalls)
        /\ \A msg \in CallMsgs :
             CallDispatchOf(msg) /\ TypeOf(msg) # "tool_call"
               => store'.toolCalls = store.toolCalls ]_vars

\* a partial tool_call was dispatched twice after the message with its
\* message_id: each dispatch replaced that one log entry, and the two calls of
\* the same tool and step are two entries
C30_Witness ==
    /\ Len(store.toolCalls) = 2
    /\ store.toolCalls[1] = store.toolCalls[2]
    /\ store.toolCalls[2] = [tool |-> "broll_finder", args |-> EmptyObj, step |-> "broll",
                             description |-> ""]
    /\ Len(store.messages) = 1
    /\ TypeOf(store.messages[1]) = "tool_call"
    /\ Opt(store.messages[1], "content", "") = "Hel"


(***************************************************************************)
(* Claims about the log, the connection status and the store's keys        *)
(***************************************************************************)
\* C31: every call of dispatch changes the length of the message log by
\* exactly +1 (append) or 0 (replace of a partial): no dispatch, of any type
\* and payload, adds more than one entry, and only clearMessages shortens it.
C31_OneEntryPerDispatch ==
    [][ /\ Len(store'.messages) <= Len(store.messages) + 1
        /\ Len(store'.messages) < Len(store.messages) => ClearMessages
        /\ \A msg \in StoreMsgs :
             (DispatchOf(msg) /\ ~(TruthyStr(msg, "message_id") /\ TruthyBool(msg, "is_partial")))
               => Len(store'.messages) = Len(store.messages) + 1 ]_vars


\* the shallow merge of an entry and a message, field by field
ShallowMerge(old, msg) ==
    [k \in DOMAIN old \cup DOMAIN msg |-> IF k \in DOMAIN msg THEN msg[k] ELSE old[k]]

\* C32: when a partial message replaces a log entry, the resulting entry is
\* the shallow merge of the two (every field of the new message with the new
\* value, every field only the earlier entry has with its earlier value), and
\* every other entry of the log is unchanged.
C32_ShallowMerge ==
    [][ \A msg \in LogMsgs :
          ( /\ TruthyStr(msg, "message_id") /\ TruthyBool(msg, "is_partial")
            /\ WithId(store.messages, msg.message_id) # {}
            /\ DispatchOf(msg) )
          => \E k \in WithId(store.messages, msg.message_id) :
                /\ store'.messages[k] = ShallowMerge(store.messages[k], msg)
                /\ ReplacedAt(k) ]_vars

\* a partial update was merged into the first entry, which kept the field the
\* update lacks, next to an entry of another message_id
C32_Witness ==
    /\ Len(store.messages) = 2
    /\ store.messages[1] = [type |-> "ai_message", message_id |-> "m2", is_partial |-> TRUE,
                            content |-> "Hi!", reasoning |-> "why"]
    /\ store.messages[2] = Partial("m1", "Hel")


\* the transport the manager holds as current is open
CurrentOpen == wsRef # 0 /\ tstate[wsRef] = "open"

\* C33: in every reachable state the store's connectionStatus is 'connected'
\* only if the current transport is open, and whenever the current transport
\* is open the status is 'connected'.
C33_StatusMatchesTransport ==
    (store.connectionStatus = "connected") <=> CurrentOpen


\* C34: in every reachable state the transport the manager holds as current
\* (connecting or open) is addressed to the current session identifier: no
\* reconnect timer of a transport of an earlier identifier creates or
\* installs a transport addressed to that identifier.
C34_CurrentSession ==
    (wsRef # 0 /\ tstate[wsRef] \in Live) => turl[wsRef] = sessionId


\* C35: after the manager is torn down by unmount or by a change of session
\* identifier, the pending reconnect timer is cancelled and the torn-down
\* connection causes no later reconnect: the close event of a transport the
\* manager closed by close() schedules no timer, and after unmount no timer
\* is scheduled and no transport is created.
C35_TeardownIsFinal ==
    [][ /\ Unmount => timers' = {}
        /\ \A t \in Transports, code \in Codes :
             (tclose[t] = "close()" /\ OnClose(t, code)) => timers' = timers
        /\ ~mounted => /\ timers' \subseteq timers
                       /\ \A t \in Transports : tstate[t] = "none" => tstate'[t] = "none" ]_vars


\* a connection attempt is under way or has succeeded
CurrentLive == wsRef # 0 /\ tstate[wsRef] \in Live

\* a transport has closed with a non-normal code while the session identifier
\* was set (the only way to the status 'reconnecting') and no transport is
\* connecting or open
AwaitsRetry ==
    /\ sessionId # ""
    /\ store.connectionStatus = "reconnecting"
    /\ ~CurrentLive

\* C36: under fairness of timers and transport events, whenever a transport
\* has closed with a non-normal code while the session identifier is set and
\* stays set, a new connection attempt is eventually made, after every failed
\* attempt and without a retry limit; and when a transport accepts the
\* connection the status becomes 'connected'.
C36_RetriesForever ==
    /\ AwaitsRetry ~> CurrentLive
    /\ [][\A t \in Transports : OnOpen(t) => store'.connectionStatus = "connected"]_vars

\* the reconnect timer of a failed attempt has fired: the next attempt is
\* connecting in the place of the failed one, the status is still
\* 'reconnecting' and no timer is pending (as after any number of retries)
C36_Witness ==
    /\ sessionId = "s1"
    /\ store.connectionStatus = "reconnecting"
    /\ CurrentLive
    /\ tstate[wsRef] = "connecting"
    /\ timers = {}
    /\ \A t \in Transports : t # wsRef => tstate[t] = "none"


\* the identifiers of the entries of a list are pairwise distinct
DistinctIds(xs) ==
    \A i, j \in 1..Len(xs) : xs[i].id = xs[j].id => i = j

\* the files whose identifier is made of the clock alone
ClockIds(files) == SelectSeq(files, LAMBDA file : Len(file.id) = 2)

\* C37: in every reachable state the identifiers within each of scripts,
\* projectFiles and videoPreviews are pairwise distinct, also for entries
\* created at the same clock value.  (Identifiers that carry a random number
\* are taken to differ from every other: the statement is about the others.)
C37_DistinctIds ==
    /\ DistinctIds(store.scripts)
    /\ DistinctIds(store.videoPreviews)
    /\ DistinctIds(ClockIds(store.projectFiles))


\* the step changes no key of the store but those of keys
OnlyChanges(keys) ==
    \A k \in DOMAIN store \ keys : store'[k] = store[k]

\* the entries of files that are not of type 'script', in their order
RECURSIVE NonScripts(_)
NonScripts(files) ==
    IF files = <<>> THEN <<>>
    ELSE IF Head(files).type = "script" THEN NonScripts(Tail(files))
    ELSE <<Head(files)>> \o NonScripts(Tail(files))

\* C38: each local mutator changes only its own part of the state:
\* clearMessages empties the log and nothing else; clearScripts empties scripts
\* only; clearScriptFiles removes exactly the script-typed files, keeps the
\* others in their order and is idempotent; selectFile changes selectedFile
\* only; setConnectionStatus and setError change only their slot.
C38_MutatorFrames ==
    [][ /\ ClearMessages => (store'.messages = <<>> /\ OnlyChanges({"messages"}))
        /\ ClearScripts => (store'.scripts = <<>> /\ OnlyChanges({"scripts"}))
        /\ ClearScriptFiles
             => /\ store'.projectFiles = NonScripts(store.projectFiles)
                /\ clearScriptFiles(store') = store'
                /\ OnlyChanges({"projectFiles"})
        /\ SelectFile => OnlyChanges({"selectedFile"})
        /\ SetConnectionStatus => OnlyChanges({"connectionStatus"})
        /\ SetError => OnlyChanges({"error"}) ]_vars

\* the log and the scripts were emptied after a tool call and a script result:
\* the tool call and the tool result are still there
C38_Witness ==
    /\ store.messages = <<>>
    /\ store.scripts = <<>>
    /\ Len(store.toolCalls) = 1
    /\ Len(store.toolResults) = 1
    /\ store.toolResults[1].result = [script_text |-> "S1"]


\* C39: in every reachable state selectedFile is either null or an entry
\* currently present in projectFiles: a purge of script-typed files never
\* leaves selectedFile pointing at a removed file.
C39_SelectedFilePresent ==
    \/ store.selectedFile = InitialStore.selectedFile
    \/ \E i \in 1..Len(store.projectFiles) : store.projectFiles[i] = store.selectedFile


\* the log holds one entry with message_id id, a partial one: the message was
\* streamed as one or more partial messages
StreamedSoFar(id) ==
    /\ Cardinality(WithId(store.messages, id)) = 1
    /\ \A i \in WithId(store.messages, id) : TruthyBool(store.messages[i], "is_partial")

\* C40: when an ai_message with message_id m that was streamed as partial
\* messages is finished by a message with the same message_id that is not
\* partial, the log then holds exactly one entry for m and that entry is not
\* partial and carries the final text (the entry the presentation instance
\* bound to m completes on).
C40_FinishedOnce ==
    [][ \A msg \in LogMsgs :
          ( /\ TruthyStr(msg, "message_id")
            /\ ~TruthyBool(msg, "is_partial")
            /\ StreamedSoFar(msg.message_id)
            /\ DispatchOf(msg) )
          => /\ Cardinality(WithId(store'.messages, msg.message_id)) = 1
             /\ \A i \in WithId(store'.messages, msg.message_id) :
                   /\ ~TruthyBool(store'.messages[i], "is_partial")
                   /\ store'.messages[i].content = msg.content ]_vars

====
